---------------------------- MODULE Spec2Model ----------------------------
(* Model of torchensemble/bagging.py: BaggingClassifier and BaggingRegressor. *)
(* One ensemble object, its fit / predict / forward methods, the bootstrap  *)
(* mask of every training batch, the per-estimator optimizer and stdout.    *)
(*                                                                          *)
(* Tensors are sequences; real numbers are exact rationals <<num, den>>.    *)
(* A base estimator has one parameter w, a word of ParamMod values.         *)
(* Classifier logits are counted in units of ln 2, so exp is a power of 2   *)
(* and softmax is computed exactly.                                         *)
EXTENDS Integers, Sequences, FiniteSets, TLC

\* ------------------------------------------------------------- bounds
MaxEstimators == 2
MaxEpochs == 2
MaxLogInterval == 2
MaxData == 3
MaxBatch == 2
MaxFitCalls == 2
ParamMod == 3

\* values of one input feature
Features == {0, 1}

VARIABLES
    kind,                \* "classifier" | "regressor": the class of self
    n_estimators,        \* self.n_estimators
    epochs,              \* self.epochs
    log_interval,        \* self.log_interval
    estimators_,         \* self.estimators_: the parameter of every estimator
    training,            \* module mode set by self.train() / self.eval()
    pc,                  \* position of the running call
    loader,              \* train_loader / test_loader of the running call
    est_idx, epoch, batch_idx,   \* loop counters
    estimator_optimizer, \* the optimizer of the estimator in training
    batch_size,          \* batch_size of the last training batch
    sampling_mask,       \* sampling_mask of the last training batch
    stdout,              \* lines printed by the running fit call
    X, output,           \* forward's argument and result
    correct, mse,        \* predict's accumulators
    ret,                 \* value returned by predict
    fit_calls,           \* history: number of fit invocations so far
    n_updates,           \* history: optimizer steps per estimator, this fit call
    trained_on,          \* history: batch indices per estimator, this fit call
    params_at_start,     \* history: estimators_ when the running fit call began
    params_when_done     \* history: parameter of each estimator when its loop ended

vars == << kind, n_estimators, epochs, log_interval, estimators_, training, pc,
           loader, est_idx, epoch, batch_idx, estimator_optimizer, batch_size,
           sampling_mask, stdout, X, output, correct, mse, ret, fit_calls,
           n_updates, trained_on, params_at_start, params_when_done >>

config == << kind, n_estimators, epochs, log_interval >>
fit_locals == << est_idx, epoch, batch_idx, estimator_optimizer, batch_size,
                 sampling_mask, stdout >>
predict_locals == << correct, mse, ret >>
history == << n_updates, trained_on, params_at_start, params_when_done >>

\* ------------------------------------------------- exact real arithmetic
Abs(a) == IF a < 0 THEN -a ELSE a

Sgn(a) == IF a < 0 THEN -1 ELSE IF a > 0 THEN 1 ELSE 0

Min(a, b) == IF a < b THEN a ELSE b

RECURSIVE GCD(_, _)
GCD(a, b) == IF b = 0 THEN a ELSE GCD(b, a % b)

Rat(n, d) == LET g == GCD(Abs(n), d) IN << n \div g, d \div g >>

Zero == Rat(0, 1)

RAdd(p, q) == Rat(p[1] * q[2] + q[1] * p[2], p[2] * q[2])

RSub(p, q) == Rat(p[1] * q[2] - q[1] * p[2], p[2] * q[2])

RMul(p, q) == Rat(p[1] * q[1], p[2] * q[2])

RDivInt(p, k) == Rat(p[1], p[2] * k)

RLess(p, q) == p[1] * q[2] < q[1] * p[2]

RECURSIVE Pow2(_)
Pow2(k) == IF k = 0 THEN 1 ELSE 2 * Pow2(k - 1)

RECURSIVE RSum(_)
RSum(s) == IF s = << >> THEN Zero ELSE RAdd(Head(s), RSum(Tail(s)))

RECURSIVE ISum(_)
ISum(s) == IF s = << >> THEN 0 ELSE Head(s) + ISum(Tail(s))


\* ------------------------------------------------------ the batch stream
\* A torch DataLoader over a map-style dataset, without shuffling.
\* An example pairs an input x with a target y; the two examples below give
\* every estimator parameter both right and wrong predictions.
Examples == { [x |-> 0, y |-> 1], [x |-> 1, y |-> 0] }

Datasets == UNION { [1..n -> Examples] : n \in 1..MaxData }

DataLoaders == [dataset : Datasets, batch_size : 1..MaxBatch, drop_last : BOOLEAN]

\* len(loader): the number of batches one iteration yields
NumBatches(dl) ==
    IF dl.drop_last
    THEN Len(dl.dataset) \div dl.batch_size
    ELSE (Len(dl.dataset) + dl.batch_size - 1) \div dl.batch_size

\* the k-th batch (k from 0) of an iteration that starts at the beginning
Batch(dl, k) ==
    SubSeq(dl.dataset, k * dl.batch_size + 1,
           Min((k + 1) * dl.batch_size, Len(dl.dataset)))

Inputs(batch) == [i \in 1..Len(batch) |-> batch[i].x]

Labels(batch) == [i \in 1..Len(batch) |-> batch[i].y]

\* ------------------------------------------------------ base estimators
output_dim == IF kind = "classifier" THEN 2 ELSE 1

\* estimator(X) of a classifier, one row: the logits of classes 0 and 1
Logits(w, x) == << 2 * w, 2 * x + 1 >>

\* estimator(X) of a regressor, one row
Value(w, x) == << Rat(w + x, 1) >>

\* F.softmax(z, dim=1), one row
softmax(z) ==
    LET total == ISum([c \in 1..Len(z) |-> Pow2(z[c])])
    IN  [c \in 1..Len(z) |-> Rat(Pow2(z[c]), total)]

\* row.max()[1]: the index (from 0) of the first maximal entry
ArgMax(row) ==
    (CHOOSE c \in 1..Len(row) :
        /\ \A d \in 1..Len(row) : ~RLess(row[c], row[d])
        /\ \A d \in 1..(c - 1) : RLess(row[d], row[c])) - 1

\* ---------------------------------------------------------------- forward
zeros(n, m) == [b \in 1..n |-> [c \in 1..m |-> Zero]]

TAdd(s, t) == [b \in 1..Len(s) |-> [c \in 1..Len(s[b]) |-> RAdd(s[b][c], t[b][c])]]

TDiv(s, k) == [b \in 1..Len(s) |-> [c \in 1..Len(s[b]) |-> RDivInt(s[b][c], k)]]

\* the loop `for estimator in self.estimators_: y_pred_proba += ...` from estimator k on
RECURSIVE ClassifierAccumulate(_, _, _)
ClassifierAccumulate(acc, k, Xs) ==
    IF k > Len(estimators_) THEN acc
    ELSE ClassifierAccumulate(
            TAdd(acc, [b \in 1..Len(Xs) |-> softmax(Logits(estimators_[k], Xs[b]))]),
            k + 1, Xs)

ClassifierForward(Xs) ==
    TDiv(ClassifierAccumulate(zeros(Len(Xs), output_dim), 1, Xs), n_estimators)

RECURSIVE RegressorAccumulate(_, _, _)
RegressorAccumulate(acc, k, Xs) ==
    IF k > Len(estimators_) THEN acc
    ELSE RegressorAccumulate(
            TAdd(acc, [b \in 1..Len(Xs) |-> Value(estimators_[k], Xs[b])]),
            k + 1, Xs)

RegressorForward(Xs) ==
    TDiv(RegressorAccumulate(zeros(Len(Xs), output_dim), 1, Xs), n_estimators)

\* variant of forward: the accumulated sum is not divided by n_estimators
forward_without_division(Xs) ==
    IF kind = "classifier"
    THEN ClassifierAccumulate(zeros(Len(Xs), output_dim), 1, Xs)
    ELSE RegressorAccumulate(zeros(Len(Xs), output_dim), 1, Xs)

forward(Xs) == IF kind = "classifier" THEN ClassifierForward(Xs) ELSE RegressorForward(Xs)

\* --------------------------------------------------------- bootstrap mask
\* torch.randint(high, size=(size,)): every tensor of `size` integers in [0, high)
randint(high, size) == [1..size -> 0..(high - 1)]

RECURSIVE SortedSeq(_)
SortedSeq(S) ==
    IF S = {} THEN << >>
    ELSE LET m == CHOOSE a \in S : \A b \in S : a <= b
         IN  << m >> \o SortedSeq(S \ {m})

\* variant of unique: the duplicates are kept
unique_keeps_duplicates(t) == t

\* torch.unique(t): the distinct values of t, ascending
unique(t) == SortedSeq({ t[i] : i \in DOMAIN t })

\* t[mask]: index a batch tensor by an index tensor
Index(t, mask) == [i \in 1..Len(mask) |-> t[mask[i] + 1]]

\* -------------------------------------------------------- loss, optimizer
\* nn.MSELoss()(out, y): the mean over the elements of (out - y)^2
MSELoss(out, y) ==
    RDivInt(RSum([b \in 1..Len(out) |->
                    LET d == RSub(out[b][1], Rat(y[b], 1)) IN RMul(d, d)]),
            Len(out))

\* loss.backward(): the sign of d loss / d w for the estimator with parameter w
\* on the bootstrap subset sub (cross-entropy / mean squared error)
Grad(w, sub) ==
    IF kind = "classifier"
    THEN Sgn(RSum([i \in 1..Len(sub) |->
                RSub(softmax(Logits(w, sub[i].x))[1],
                     Rat(IF sub[i].y = 0 THEN 1 ELSE 0, 1))])[1])
    ELSE Sgn(ISum([i \in 1..Len(sub) |-> w + sub[i].x - sub[i].y]))

\* torch.optim.Adam(params): a fresh optimizer over the parameters `params`
Adam(params) == [params |-> params, step |-> 0, exp_avg |-> 0]

\* variant of EstimatorParameters: the parameters of the whole ensemble
EnsembleParameters(i) == 1..Len(estimators_)

\* estimator.parameters() of the estimator at index i (from 1)
EstimatorParameters(i) == {i}

\* optimizer.step(): the new optimizer state (direction of the first moment only)
AdamState(opt, g) ==
    [opt EXCEPT !.step = opt.step + 1, !.exp_avg = Sgn(opt.exp_avg + g)]

\* optimizer.step(): the new parameters, changed in the optimizer's own params only
AdamStep(opt, g, theta) ==
    [i \in DOMAIN theta |->
        IF i \in opt.params
        THEN (theta[i] - AdamState(opt, g).exp_avg) % ParamMod
        ELSE theta[i]]

\* ------------------------------------------------------------ the object
\* values of the locals while no call runs
NoLoader == [dataset |-> << >>, batch_size |-> 1, drop_last |-> FALSE]

NoOptimizer == Adam({})

NoHistory(n) == [i \in 1..n |-> << >>]

IdleLocals ==
    /\ loader' = NoLoader
    /\ est_idx' = 0 /\ epoch' = 0 /\ batch_idx' = 0
    /\ estimator_optimizer' = NoOptimizer
    /\ batch_size' = 0
    /\ sampling_mask' = << >>
    /\ stdout' = << >>
    /\ X' = << >> /\ output' = << >>
    /\ correct' = 0 /\ mse' = Zero /\ ret' = Zero
    /\ n_updates' = [i \in 1..Len(estimators_) |-> 0]
    /\ trained_on' = NoHistory(Len(estimators_))
    /\ params_at_start' = estimators_
    /\ params_when_done' = NoHistory(Len(estimators_))

\* BaseModule.__init__: n_estimators independently initialised estimators and
\* hyperparameters that pass _validate_parameters
Init ==
    /\ kind \in {"classifier", "regressor"}
    /\ n_estimators \in 1..MaxEstimators
    /\ epochs \in 1..MaxEpochs
    /\ log_interval \in 1..MaxLogInterval
    /\ estimators_ \in [1..n_estimators -> 0..(ParamMod - 1)]
    /\ training = TRUE
    /\ pc = "idle"
    /\ loader = NoLoader
    /\ est_idx = 0 /\ epoch = 0 /\ batch_idx = 0
    /\ estimator_optimizer = NoOptimizer
    /\ batch_size = 0
    /\ sampling_mask = << >>
    /\ stdout = << >>
    /\ X = << >> /\ output = << >>
    /\ correct = 0 /\ mse = Zero /\ ret = Zero
    /\ fit_calls = 0
    /\ n_updates = [i \in 1..n_estimators |-> 0]
    /\ trained_on = NoHistory(n_estimators)
    /\ params_at_start = estimators_
    /\ params_when_done = NoHistory(n_estimators)

\* -------------------------------------------------------------------- fit
\* fit(train_loader) up to the estimator loop: self.train(), _validate_parameters()
FitStart(dl) ==
    /\ pc = "idle"
    /\ fit_calls < MaxFitCalls
    /\ fit_calls' = fit_calls + 1
    /\ training' = TRUE
    /\ loader' = dl
    /\ pc' = "fit_estimator"
    /\ est_idx' = 0
    /\ params_at_start' = estimators_
    /\ UNCHANGED << config, estimators_, epoch, batch_idx, estimator_optimizer,
                    batch_size, sampling_mask, stdout, X, output, predict_locals,
                    n_updates, trained_on, params_when_done >>

\* variant of FitEstimator: the stream is consumed by the first estimator and
\* yields nothing to the later ones
FitEstimatorOneShotStream ==
    /\ pc = "fit_estimator"
    /\ est_idx < Len(estimators_)
    /\ estimator_optimizer' = Adam(EstimatorParameters(est_idx + 1))
    /\ epoch' = 0
    /\ batch_idx' = 0
    /\ IF est_idx = 0 /\ epochs > 0 /\ NumBatches(loader) > 0
       THEN /\ pc' = "fit_batch"
            /\ UNCHANGED << est_idx, params_when_done >>
       ELSE /\ pc' = "fit_estimator"
            /\ est_idx' = est_idx + 1
            /\ params_when_done' =
                  [params_when_done EXCEPT ![est_idx + 1] = << estimators_[est_idx + 1] >>]
    /\ UNCHANGED << config, estimators_, training, loader, batch_size, sampling_mask,
                    stdout, X, output, predict_locals, fit_calls, n_updates,
                    trained_on, params_at_start >>

\* the head of `for est_idx, estimator in enumerate(self.estimators_)`: a new
\* optimizer for the next estimator, and the heads of the two inner loops
FitEstimator ==
    /\ pc = "fit_estimator"
    /\ est_idx < Len(estimators_)
    /\ estimator_optimizer' = Adam(EstimatorParameters(est_idx + 1))
    /\ epoch' = 0
    /\ batch_idx' = 0
    /\ IF epochs > 0 /\ NumBatches(loader) > 0
       THEN /\ pc' = "fit_batch"
            /\ UNCHANGED << est_idx, params_when_done >>
       ELSE /\ pc' = "fit_estimator"
            /\ est_idx' = est_idx + 1
            /\ params_when_done' =
                  [params_when_done EXCEPT ![est_idx + 1] = << estimators_[est_idx + 1] >>]
    /\ UNCHANGED << config, estimators_, training, loader, batch_size, sampling_mask,
                    stdout, X, output, predict_locals, fit_calls, n_updates,
                    trained_on, params_at_start >>

\* variant of Log: a line after every log_interval-th batch, not from batch 0
LogAfterInterval(out) ==
    IF (batch_idx + 1) % log_interval = 0
    THEN Append(out, << est_idx, epoch, batch_idx >>)
    ELSE out

\* print(msg.format(est_idx, epoch, batch_idx, ...)) every log_interval batches
Log(out) ==
    IF batch_idx % log_interval = 0
    THEN Append(out, << est_idx, epoch, batch_idx >>)
    ELSE out

\* variant of NextBatch: the epoch loop runs once more than self.epochs
NextBatchExtraEpoch ==
    IF batch_idx + 1 < NumBatches(loader)
    THEN [pc |-> "fit_batch", est_idx |-> est_idx, epoch |-> epoch,
          batch_idx |-> batch_idx + 1]
    ELSE IF epoch + 1 <= epochs
    THEN [pc |-> "fit_batch", est_idx |-> est_idx, epoch |-> epoch + 1,
          batch_idx |-> 0]
    ELSE [pc |-> "fit_estimator", est_idx |-> est_idx + 1, epoch |-> 0,
          batch_idx |-> 0]

\* where the loops stand after the body of batch batch_idx
NextBatch ==
    IF batch_idx + 1 < NumBatches(loader)
    THEN [pc |-> "fit_batch", est_idx |-> est_idx, epoch |-> epoch,
          batch_idx |-> batch_idx + 1]
    ELSE IF epoch + 1 < epochs
    THEN [pc |-> "fit_batch", est_idx |-> est_idx, epoch |-> epoch + 1,
          batch_idx |-> 0]
    ELSE [pc |-> "fit_estimator", est_idx |-> est_idx + 1, epoch |-> 0,
          batch_idx |-> 0]

\* one pass of the body of the batch loop
FitBatch ==
    /\ pc = "fit_batch"
    /\ LET batch == Batch(loader, batch_idx)
           B == Len(batch)
       IN  \E draw \in randint(B, B) :
             LET mask == unique(draw)
                 sub == Index(batch, mask)
                 g == Grad(estimators_[est_idx + 1], sub)
                 next == NextBatch
             IN  /\ batch_size' = B
                 /\ sampling_mask' = mask
                 /\ estimators_' = AdamStep(estimator_optimizer, g, estimators_)
                 /\ estimator_optimizer' = AdamState(estimator_optimizer, g)
                 /\ stdout' = Log(stdout)
                 /\ n_updates' = [i \in DOMAIN n_updates |->
                        IF i \in estimator_optimizer.params
                        THEN n_updates[i] + 1 ELSE n_updates[i]]
                 /\ trained_on' = [trained_on EXCEPT
                        ![est_idx + 1] = Append(@, batch)]
                 /\ pc' = next.pc
                 /\ est_idx' = next.est_idx
                 /\ epoch' = next.epoch
                 /\ batch_idx' = next.batch_idx
                 /\ params_when_done' =
                       IF next.est_idx = est_idx THEN params_when_done
                       ELSE [params_when_done EXCEPT
                                ![est_idx + 1] = << estimators_'[est_idx + 1] >>]
    /\ UNCHANGED << config, training, loader, X, output, predict_locals, fit_calls,
                    params_at_start >>

\* variant of FitRaise: the parameters are restored to those at the call
FitRaiseRollsBack ==
    /\ pc = "fit_batch"
    /\ pc' = "fit_raised"
    /\ estimators_' = params_at_start
    /\ UNCHANGED << config, training, loader, fit_locals, X, output,
                    predict_locals, fit_calls, history >>

\* the numeric engine raises in the body of the batch loop, before the
\* optimizer step; nothing catches it
FitRaise ==
    /\ pc = "fit_batch"
    /\ pc' = "fit_raised"
    /\ UNCHANGED << config, estimators_, training, loader, fit_locals, X, output,
                    predict_locals, fit_calls, history >>

\* the estimator loop is exhausted: fit returns None
FitReturn ==
    /\ pc = "fit_estimator"
    /\ est_idx >= Len(estimators_)
    /\ pc' = "fit_done"
    /\ UNCHANGED << config, estimators_, training, loader, fit_locals, X, output,
                    predict_locals, fit_calls, history >>

\* ---------------------------------------------------------------- predict
\* predict(test_loader) up to the batch loop: self.eval(), the accumulators
PredictStart(dl) ==
    /\ pc = "idle"
    /\ training' = FALSE
    /\ loader' = dl
    /\ correct' = 0
    /\ mse' = Zero
    /\ batch_idx' = 0
    /\ pc' = "predict_batch"
    /\ UNCHANGED << config, estimators_, est_idx, epoch, estimator_optimizer,
                    batch_size, sampling_mask, stdout, X, output, ret, fit_calls,
                    history >>

\* correct += y_pred.eq(y_test).sum() for the classifier's batch
ClassifierScore(out, y) ==
    Cardinality({ b \in 1..Len(out) : ArgMax(out[b]) = y[b] })

\* variant of PredictBatch: the batch also moves every estimator's parameter
PredictBatchMovesParameters ==
    /\ pc = "predict_batch"
    /\ batch_idx < NumBatches(loader)
    /\ LET batch == Batch(loader, batch_idx)
           out == forward(Inputs(batch))
       IN  /\ X' = Inputs(batch)
           /\ output' = out
           /\ IF kind = "classifier"
              THEN /\ correct' = correct + ClassifierScore(out, Labels(batch))
                   /\ mse' = mse
              ELSE /\ mse' = RAdd(mse, MSELoss(out, Labels(batch)))
                   /\ correct' = correct
    /\ batch_idx' = batch_idx + 1
    /\ estimators_' = [i \in DOMAIN estimators_ |-> (estimators_[i] + 1) % ParamMod]
    /\ UNCHANGED << config, training, pc, loader, est_idx, epoch,
                    estimator_optimizer, batch_size, sampling_mask, stdout, ret,
                    fit_calls, history >>

\* one pass of the body of predict's batch loop
PredictBatch ==
    /\ pc = "predict_batch"
    /\ batch_idx < NumBatches(loader)
    /\ LET batch == Batch(loader, batch_idx)
           out == forward(Inputs(batch))
       IN  /\ X' = Inputs(batch)
           /\ output' = out
           /\ IF kind = "classifier"
              THEN /\ correct' = correct + ClassifierScore(out, Labels(batch))
                   /\ mse' = mse
              ELSE /\ mse' = RAdd(mse, MSELoss(out, Labels(batch)))
                   /\ correct' = correct
    /\ batch_idx' = batch_idx + 1
    /\ UNCHANGED << config, estimators_, training, pc, loader, est_idx, epoch,
                    estimator_optimizer, batch_size, sampling_mask, stdout, ret,
                    fit_calls, history >>

\* accuracy = 100. * float(correct) / len(test_loader.dataset)
Accuracy(n_correct, dl) == Rat(100 * n_correct, Len(dl.dataset))

\* variant of MeanMSE: the sum is divided by the number of examples
MeanMSEPerExample(total, dl) == RDivInt(total, Len(dl.dataset))

\* mse / len(test_loader)
MeanMSE(total, dl) == RDivInt(total, NumBatches(dl))

\* the value predict returns; a division by zero raises ZeroDivisionError
PredictReturn ==
    /\ pc = "predict_batch"
    /\ batch_idx >= NumBatches(loader)
    /\ IF kind = "classifier"
       THEN IF Len(loader.dataset) = 0
            THEN pc' = "predict_raised" /\ ret' = ret
            ELSE pc' = "predict_done" /\ ret' = Accuracy(correct, loader)
       ELSE IF NumBatches(loader) = 0
            THEN pc' = "predict_raised" /\ ret' = ret
            ELSE pc' = "predict_done" /\ ret' = MeanMSE(mse, loader)
    /\ UNCHANGED << config, estimators_, training, loader, fit_locals, X, output,
                    correct, mse, fit_calls, history >>

\* ---------------------------------------------------------------- forward
\* forward(X) called by the user on a batch of inputs
Forward(Xs) ==
    /\ pc = "idle"
    /\ X' = Xs
    /\ output' = forward(Xs)
    /\ pc' = "forward_done"
    /\ UNCHANGED << config, estimators_, training, loader, fit_locals,
                    predict_locals, fit_calls, history >>

\* the caller has the result (or the exception) of the call: its locals die
Return ==
    /\ pc \in {"fit_done", "fit_raised", "predict_done", "predict_raised", "forward_done"}
    /\ pc' = "idle"
    /\ IdleLocals
    /\ UNCHANGED << config, estimators_, training, fit_calls >>

Batches == UNION { [1..n -> Features] : n \in 1..MaxBatch }

Next ==
    \/ \E dl \in DataLoaders : FitStart(dl)
    \/ FitEstimator
    \/ FitBatch
    \/ FitRaise
    \/ FitReturn
    \/ \E dl \in DataLoaders : PredictStart(dl)
    \/ PredictBatch
    \/ PredictReturn
    \/ \E Xs \in Batches : Forward(Xs)
    \/ Return

Spec == Init /\ [][Next]_vars

\* ============================================================== claims
\* size of the k-th batch (k from 0) and the sizes of all batches of a stream
StreamSizes(dl) == [k \in 1..NumBatches(dl) |-> Len(Batch(dl, k - 1))]

InFit == pc \in {"fit_estimator", "fit_batch", "fit_raised", "fit_done"}

InPredict == pc \in {"predict_batch", "predict_done", "predict_raised"}

\* C1: the bootstrap mask drawn for a batch of size B >= 1 has between 1 and B
\* entries, every entry is an index in [0, B), and no index occurs twice.
C1_MaskValid ==
    batch_size >= 1 =>
        /\ Len(sampling_mask) \in 1..batch_size
        /\ \A i \in 1..Len(sampling_mask) : sampling_mask[i] \in 0..(batch_size - 1)
        /\ \A i, j \in 1..Len(sampling_mask) :
              i # j => sampling_mask[i] # sampling_mask[j]

C1_Witness ==
    /\ InFit
    /\ batch_size >= 2
    /\ Len(sampling_mask) < batch_size

\* what estimator i contributes to forward for input x: softmax of its logits
\* for the classifier, its raw value for the regressor
Contribution(i, x) ==
    IF kind = "classifier" THEN softmax(Logits(estimators_[i], x))
    ELSE Value(estimators_[i], x)

\* C2: forward's output is, entry by entry, the unweighted arithmetic mean over
\* all n_estimators estimators of their contributions; with one estimator it is
\* that estimator's contribution.
C2_ForwardIsMean ==
    output # << >> =>
        /\ Len(output) = Len(X)
        /\ \A b \in 1..Len(X) :
              /\ Len(output[b]) = output_dim
              /\ \A c \in 1..output_dim :
                    RMul(Rat(n_estimators, 1), output[b][c]) =
                        RSum([i \in 1..n_estimators |-> Contribution(i, X[b])[c]])
              /\ n_estimators = 1 => output[b] = Contribution(1, X[b])

C2_Witness ==
    /\ pc = "forward_done"
    /\ kind = "classifier"
    /\ n_estimators = 2
    /\ estimators_[1] # estimators_[2]
    /\ Len(X) = 2

\* C3: while predict runs and when it has returned (or raised), every
\* estimator's parameters are what they were when predict was called.
C3_PredictKeepsParameters ==
    InPredict => estimators_ = params_at_start

C3_Witness ==
    /\ pc = "predict_done"
    /\ fit_calls >= 1
    /\ batch_idx >= 2
    /\ training = FALSE

\* the number of examples of the stream whose arg-max class of forward is the target
StreamCorrect(dl) ==
    ISum([k \in 1..NumBatches(dl) |->
            ClassifierScore(forward(Inputs(Batch(dl, k - 1))),
                            Labels(Batch(dl, k - 1)))])

\* C4: the classifier's predict returns 100 * correct / N with N the number of
\* examples in the batches the stream yields.
C4_AccuracyOverStream ==
    (pc = "predict_done" /\ kind = "classifier" /\ ISum(StreamSizes(loader)) > 0) =>
        ret = Rat(100 * StreamCorrect(loader), ISum(StreamSizes(loader)))

\* the per-batch mean squared errors m1..mk of a stream
StreamMSE(dl) ==
    [k \in 1..NumBatches(dl) |->
        MSELoss(forward(Inputs(Batch(dl, k - 1))), Labels(Batch(dl, k - 1)))]

\* the mean squared error over the examples of the stream
ExampleMSE(dl) ==
    RDivInt(RSum([k \in 1..NumBatches(dl) |->
                    RMul(Rat(StreamSizes(dl)[k], 1), StreamMSE(dl)[k])]),
            ISum(StreamSizes(dl)))

\* C5: over a stream of k >= 1 batches the regressor's predict returns
\* (m1 + ... + mk) / k.
C5_MeanOfBatchMSE ==
    (pc = "predict_done" /\ kind = "regressor") =>
        /\ NumBatches(loader) >= 1
        /\ ret = RDivInt(RSum(StreamMSE(loader)), NumBatches(loader))

C5_Witness ==
    /\ pc = "predict_done"
    /\ kind = "regressor"
    /\ NumBatches(loader) = 2
    /\ StreamSizes(loader)[1] # StreamSizes(loader)[2]
    /\ StreamMSE(loader)[1] # StreamMSE(loader)[2]
    /\ ret # ExampleMSE(loader)

\* C6: when fit has run to completion every estimator has received exactly
\* epochs * K optimizer steps, n_estimators * epochs * K in total.
C6_UpdateCount ==
    pc = "fit_done" =>
        /\ \A i \in 1..n_estimators : n_updates[i] = epochs * NumBatches(loader)
        /\ ISum(n_updates) = n_estimators * epochs * NumBatches(loader)

C6_Witness ==
    /\ pc = "fit_done"
    /\ n_estimators = 2
    /\ epochs = 2
    /\ NumBatches(loader) = 3
    /\ ISum(n_updates) = 12

LexLess(s, t) ==
    \/ s[1] < t[1]
    \/ s[1] = t[1] /\ s[2] < t[2]
    \/ s[1] = t[1] /\ s[2] = t[2] /\ s[3] < t[3]

\* every (estimator index, epoch, batch index) of a fit call, in loop order
Iterations(dl) ==
    LET K == NumBatches(dl)
    IN  [j \in 1..(n_estimators * epochs * K) |->
            << (j - 1) \div (epochs * K), ((j - 1) \div K) % epochs, (j - 1) % K >>]

\* the iteration the running fit call stands before
Position == << est_idx, epoch, batch_idx >>

\* the lines a fit call must have printed when it stands before Position
ExpectedLines ==
    LET Due(t) == t[3] % log_interval = 0 /\ LexLess(t, Position)
    IN  SelectSeq(Iterations(loader), Due)

\* C7: in every fit call, the first or a repeated one, the lines printed so far
\* are those of exactly the iterations already run whose batch index is a
\* multiple of log_interval, counted from epoch 0 and batch 0, in increasing
\* order of (estimator index, epoch, batch index).
C7_LogLines ==
    InFit =>
        /\ stdout = ExpectedLines
        /\ \A i, j \in 1..Len(stdout) : i < j => LexLess(stdout[i], stdout[j])

C7_Witness ==
    /\ pc = "fit_done"
    /\ fit_calls = 2
    /\ log_interval = 2
    /\ epochs = 2
    /\ n_estimators = 2
    /\ NumBatches(loader) = 3
    /\ Len(stdout) = 8

\* the batches one estimator must have been trained on after `done` iterations
StreamPrefix(dl, done) ==
    [j \in 1..done |-> Batch(dl, (j - 1) % NumBatches(dl))]

\* C8: an estimator is updated only after every earlier estimator has run all
\* its epochs, and when fit completes every estimator has been trained on the
\* stream's batches in stream order, once per epoch, from the first batch.
C8_SequentialSameBatches ==
    InFit =>
        /\ \A i \in 1..(n_estimators - 1) :
              trained_on[i + 1] # << >> =>
                  /\ Len(trained_on[i]) = epochs * NumBatches(loader)
                  /\ params_when_done[i] # << >>
        /\ \A i \in 1..n_estimators :
              trained_on[i] = StreamPrefix(loader, Len(trained_on[i]))
        /\ pc = "fit_done" =>
              \A i \in 1..n_estimators :
                  trained_on[i] = StreamPrefix(loader, epochs * NumBatches(loader))

C8_Witness ==
    /\ pc = "fit_done"
    /\ n_estimators = 2
    /\ epochs = 2
    /\ NumBatches(loader) = 2
    /\ Len(loader.dataset) = 3
    /\ trained_on[1] = trained_on[2]

\* C9: the optimizer in use while estimator i is trained was created for that
\* estimator's parameters only and has taken exactly the steps of this
\* estimator's training in this fit call (none at its start), and a step
\* leaves the parameters of every other estimator unchanged.
C9_OptimizerIsolation ==
    /\ [](pc \in {"fit_batch", "fit_raised"} =>
            /\ estimator_optimizer.params = {est_idx + 1}
            /\ estimator_optimizer.step = epoch * NumBatches(loader) + batch_idx
            /\ estimator_optimizer.step = 0 => estimator_optimizer.exp_avg = 0)
    /\ [][(pc = "fit_batch" /\ pc' # "fit_raised") =>
            \A j \in 1..n_estimators :
                j # est_idx + 1 => estimators_'[j] = estimators_[j]]_vars

C9_Witness ==
    /\ pc = "fit_batch"
    /\ fit_calls = 2
    /\ est_idx = 1
    /\ estimator_optimizer.step = 1
    /\ estimators_[2] # params_at_start[2]
    /\ estimators_[1] # params_at_start[1]

\* C10: when the engine raises while estimator k is trained nothing is rolled
\* back: earlier estimators have the parameters they had when their training
\* ended, estimator k has had exactly the updates applied before the failure
\* and keeps its parameters, later estimators are as they were when fit was
\* called, and fit does nothing more: the exception reaches the caller.
C10_NoRollback ==
    /\ [](pc = "fit_raised" =>
            /\ \A j \in 1..est_idx : << estimators_[j] >> = params_when_done[j]
            /\ n_updates[est_idx + 1] = epoch * NumBatches(loader) + batch_idx
            /\ \A j \in (est_idx + 2)..n_estimators :
                  estimators_[j] = params_at_start[j] /\ n_updates[j] = 0)
    /\ [][(pc' = "fit_raised" \/ pc = "fit_raised") =>
            estimators_' = estimators_]_vars
    /\ [][pc = "fit_raised" => pc' = "idle"]_vars

C10_Witness ==
    /\ pc = "fit_raised"
    /\ n_estimators = 2
    /\ est_idx = 1
    /\ n_updates[2] >= 1
    /\ estimators_[1] # params_at_start[1]
    /\ estimators_[2] # params_at_start[2]

=============================================================================
